---- MODULE Spec2Model ----
(***************************************************************************)
(* A model of hypothesisapi.API.search, the paginated search generator of *)
(* src/hypothesisapi/__init__.py, together with the consumer that drives  *)
(* it with next() and the server that answers its GET requests.           *)
(*                                                                         *)
(* Python values:                                                          *)
(*   Optional[str] / Optional[int]  a set with at most one element,        *)
(*                                  None == {}                             *)
(*   dict                           a function whose domain is its keys    *)
(*   list                           a sequence                             *)
(*                                                                         *)
(* Every step is one call of the consumer: search(...) or next(). What the *)
(* consumer and the server see is recorded beside the generator's locals:  *)
(* the two latest requests and responses, the rows yielded since the two   *)
(* latest requests, and counters that stop counting at their bound, so     *)
(* that a cursor-mode search that never ends is a cycle of the model. An   *)
(* offset-mode search, whose offset grows without limit, is followed for   *)
(* MaxReq requests.                                                        *)
(*                                                                         *)
(* The specifications share the definitions of the module:                 *)
(*   Spec, LiveSpec  one search and its consumer                           *)
(*   RawSpec         calls of search_raw and of _handle_response           *)
(*   ConcSpec        two searches on one API object, their search_dict     *)
(*                   kept as objects on a heap                             *)
(*   ListSpec        one search against a server that holds a fixed list   *)
(*   CallSpec        calls of create, update_group, get_annotation and     *)
(*                   search_id                                             *)
(*   TagSpec         add_tag and remove_tag of the batch-tag example       *)
(***************************************************************************)
EXTENDS Integers, Sequences, FiniteSets, TLC

VARIABLES
    pc,                     \* generator: "idle" (search() not called), "created",
                            \* "suspended" (at the yield), "finished"
    args,                   \* the arguments bound by the call search(...)
    given,                  \* the names of the keyword arguments the caller passed
    self,                   \* the API object the search is called on
    raw,                    \* the latest call of a method that is no generator
    heap,                   \* the dict objects of concurrent searches, by address
    gens,                   \* the frames of concurrent searches on the one API object
    call,                   \* the latest call of create, update_group, get_annotation, search_id
    listing,                \* the result list a server holds and the page cap it applies
    tagging,                \* the tags of the annotation the batch-tag example works on
    search_dict,            \* local search_dict
    use_cursor_pagination,  \* local use_cursor_pagination
    last_seen_id,           \* local last_seen_id
    rows,                   \* local rows (the page being yielded)
    idx,                    \* position in rows of the row the generator is suspended at
    out,                    \* what the latest next() call gave the consumer
    ended_by,               \* why the generator finished: "empty", "guard", "error"
    asked_after_end,        \* the consumer called next() on the finished generator
    fetched,                \* the latest next() call issued a request
    nreq,                   \* number of requests.get calls (counted up to MaxReq)
    nyield,                 \* number of records yielded (counted up to MaxYield)
    ndone,                  \* number of pages whose rows were all yielded (up to MaxReq)
    lastReq, prevReq,       \* query of the latest request and of the one before
    lastResp, prevResp,     \* the latest response and the one before
    uniform,                \* every response so far was the same response
    yielded_page,           \* the records yielded since the latest request, in order
    yielded_prev            \* the records yielded between the two latest requests

vars == <<pc, args, given, self, raw, heap, gens, call, listing, tagging, search_dict, use_cursor_pagination, last_seen_id, rows, idx,
          out, ended_by, asked_after_end, fetched, nreq, nyield, ndone,
          lastReq, prevReq, lastResp, prevResp, uniform, yielded_page, yielded_prev>>

\* state that no step of a search writes
outside == <<self, raw, heap, gens, call, listing, tagging>>

\* state of the single search
searchvars == <<pc, args, given, self, search_dict, use_cursor_pagination, last_seen_id, rows,
                idx, out, ended_by, asked_after_end, fetched, nreq, nyield, ndone,
                lastReq, prevReq, lastResp, prevResp, uniform, yielded_page, yielded_prev>>

genvars == <<search_dict, use_cursor_pagination, last_seen_id, rows, idx>>
obsvars == <<nreq, nyield, ndone, lastReq, prevReq, lastResp, prevResp,
             uniform, yielded_page, yielded_prev>>

---------------------------------------------------------------------------
(* Bounds of the model *)

\* Offset-mode searches are followed for MaxReq requests; nreq and ndone count up to it.
MaxReq == 3
\* nyield counts up to MaxYield.
MaxYield == 3

Bump(n, cap) == IF n < cap THEN n + 1 ELSE n

---------------------------------------------------------------------------
(* Python values *)

None == {}
Some(v) == {v}
TheValue(o) == CHOOSE v \in o : TRUE

\* Mutant: "is not None" in place of truthiness.
Truthy_notNone(o) == o # None

\* bool(x) of an Optional[str]: None and "" are falsy
Truthy(o) == o # None /\ o # Some("")

EmptyDict == [k \in {} |-> None]

\* d.get(k): None when the key is missing
dict_get(d, k) == IF k \in DOMAIN d THEN Some(d[k]) ELSE None

\* d.get(k, default)
dict_get_default(d, k, default) == IF k \in DOMAIN d THEN d[k] ELSE default

\* d[k] = v
dict_set(d, k, v) == [x \in DOMAIN d \cup {k} |-> IF x = k THEN v ELSE d[x]]

---------------------------------------------------------------------------
(* The server: records, pages and responses *)

rA == [id |-> "a", created |-> "t"]
rB == [id |-> "b", created |-> "t"]
rE == [id |-> "", created |-> "t"]
rN == [created |-> "t"]

Records == {rA, rB, rE, rN}

NoRow == EmptyDict
NoDict == EmptyDict

\* pages of one row, and pages of two rows whose second row has an id or none
Pages == {<<r>> : r \in Records} \cup {<<r, s>> : r \in Records, s \in {rA, rN}}

Response(status, json, text) == [status_code |-> status, json |-> json, text |-> text]

PageResponses == {Response(200, [rows |-> p, total |-> Len(p)], "") : p \in Pages}

EndResponses ==
    { Response(200, [rows |-> <<>>, total |-> 0], ""),
      Response(200, [total |-> 0], ""),
      Response(204, EmptyDict, "") }

ErrorResponses ==
    { Response(401, EmptyDict, "Unauthorized"),
      Response(403, EmptyDict, "Forbidden"),
      Response(404, EmptyDict, "Not Found"),
      Response(500, EmptyDict, "Server Error") }

\* a page under another 2xx status than the search endpoint's 200
OtherResponses ==
    { Response(201, [rows |-> <<rA>>, total |-> 1], ""),
      Response(202, [rows |-> <<rA>>, total |-> 1], "Accepted") }

Responses == PageResponses \cup EndResponses \cup ErrorResponses \cup OtherResponses

NoResponse == Response(0, EmptyDict, "")

---------------------------------------------------------------------------
(* API._handle_response *)

NoError == "none"

Returned(value) ==
    [exc |-> NoError, value |-> value, status_code |-> 0, response |-> ""]

Raised(exc, response) ==
    [exc |-> exc, value |-> EmptyDict,
     status_code |-> response.status_code, response |-> response.text]

\* Mutant: every error is raised as the base error.
_handle_response_plain(response) ==
    IF response.status_code \in {200, 201} THEN Returned(response.json)
    ELSE IF response.status_code = 204 THEN Returned(EmptyDict)
    ELSE Raised("HypothesisAPIError", response)

\* Mutant: only 401 raises; any other status is decoded like a success.
_handle_response_lenient(response) ==
    IF response.status_code = 401 THEN Raised("AuthenticationError", response)
    ELSE Returned(response.json)

_handle_response(response) ==
    IF response.status_code \in {200, 201} THEN Returned(response.json)
    ELSE IF response.status_code = 204 THEN Returned(EmptyDict)
    ELSE IF response.status_code = 401 THEN Raised("AuthenticationError", response)
    ELSE IF response.status_code = 403 THEN Raised("ForbiddenError", response)
    ELSE IF response.status_code = 404 THEN Raised("NotFoundError", response)
    ELSE Raised("HypothesisAPIError", response)

---------------------------------------------------------------------------
(* API.search: the query *)

\* Mutant: no key is removed; urlencode sends None as the text "None".
_remove_none_keep(d) == [k \in DOMAIN d |-> IF d[k] = None THEN "None" ELSE TheValue(d[k])]

_remove_none(d) == [k \in {x \in DOMAIN d : d[x] # None} |-> TheValue(d[k])]

\* use_cursor_pagination = search_after is not None
UseCursor(a) == a.search_after # None

\* x or y
Or(x, y) == IF Truthy(x) THEN x ELSE y

\* d.update(other)
dict_update(d, other) ==
    [k \in DOMAIN d \cup DOMAIN other |-> IF k \in DOMAIN other THEN other[k] ELSE d[k]]

\* Of the user names of the model, those for which user.startswith("acct:") holds
FullAccounts == {"acct:u@example.org"}
startswith_acct(user) == user \in FullAccounts

\* f"acct:{username}@{authority}" with username = user or self.username
_get_user_acct(user, authority) ==
    LET username == IF Truthy(user) THEN TheValue(user) ELSE self.username
    IN  "acct:" \o username \o "@" \o authority

\* Mutant: every user value is wrapped into an account identifier.
UserAcct_wrapAll(a) ==
    IF Truthy(a.user)
    THEN Some(_get_user_acct(a.user, TheValue(Or(a.authority, Some("hypothes.is")))))
    ELSE None

\* "Handle user parameter"
UserAcct(a) ==
    IF Truthy(a.user)
    THEN IF startswith_acct(TheValue(a.user)) THEN a.user
         ELSE Some(_get_user_acct(a.user, TheValue(Or(a.authority, Some("hypothes.is")))))
    ELSE None

\* Mutant: the list of tags comes before the single tag.
TagList_listFirst(a) ==
    (IF a.tags # None THEN TheValue(a.tags) ELSE <<>>)
    \o (IF Truthy(a.tag) THEN <<TheValue(a.tag)>> ELSE <<>>)

\* "Handle tags": tag_list, the single tag first and then the list
TagList(a) ==
    (IF Truthy(a.tag) THEN <<TheValue(a.tag)>> ELSE <<>>)
    \o (IF a.tags # None THEN TheValue(a.tags) ELSE <<>>)

\* search_dict as built before the loop
BuildQuery(a) ==
    LET base == [user |-> UserAcct(a), uri |-> Or(a.uri, a.url),
                 wildcard_uri |-> a.wildcard_uri, text |-> a.text, any |-> a.any_field,
                 group |-> a.group, quote |-> a.quote, references |-> a.references,
                 sort |-> a.sort, order |-> Some(a.order), limit |-> Some(a.limit)]
        tagged == IF TagList(a) # <<>> THEN dict_set(base, "tag", Some(TagList(a))) ELSE base
        paged == IF UseCursor(a)
                 THEN dict_set(tagged, "search_after", a.search_after)
                 ELSE dict_set(tagged, "offset", Some(a.offset))
    IN  _remove_none(dict_update(paged, a.kwargs))

\* urlencode(search_dict, doseq=True): for every key the values sent under that
\* name, in order. A list gives one parameter per element, a number is sent as
\* its decimal digits; a text is the text the server reads once it has undone
\* the percent-escapes.
ListKeys == {"tag"}
IntKeys == {"limit", "offset"}
urlencode(d) ==
    [k \in {x \in DOMAIN d : ~(x \in ListKeys /\ d[x] = <<>>)} |->
        IF k \in ListKeys THEN d[k]
        ELSE IF k \in IntKeys THEN <<ToString(d[k])>>
        ELSE <<d[k]>>]

\* Mutant: the token is the identifier followed by the creation timestamp.
NextCursor_idFirst(last_row) ==
    dict_get_default(last_row, "id", "") \o dict_get_default(last_row, "created", "")

\* "Update pagination for next page"
NextCursor(last_row) ==
    dict_get_default(last_row, "created", "") \o dict_get_default(last_row, "id", "")

NextOffset(sd, limit) == dict_get_default(sd, "offset", 0) + limit

\* Mutant: the offset is incremented in cursor mode too.
UpdatePagination_bothModes(sd, rs, limit, cursor) ==
    IF cursor
    THEN dict_set(dict_set(sd, "search_after", NextCursor(rs[Len(rs)])),
                  "offset", NextOffset(sd, limit))
    ELSE dict_set(sd, "offset", NextOffset(sd, limit))

\* Mutant: the offset advances by the number of rows received.
UpdatePagination_byRows(sd, rs, limit, cursor) ==
    IF cursor
    THEN dict_set(sd, "search_after", NextCursor(rs[Len(rs)]))
    ELSE dict_set(sd, "offset", dict_get_default(sd, "offset", 0) + Len(rs))

\* Mutant: the update puts the order back to ascending.
UpdatePagination_orderReset(sd, rs, limit, cursor) ==
    dict_set(IF cursor
             THEN dict_set(sd, "search_after", NextCursor(rs[Len(rs)]))
             ELSE dict_set(sd, "offset", NextOffset(sd, limit)),
             "order", "asc")

UpdatePagination(sd, rs, limit, cursor) ==
    IF cursor
    THEN dict_set(sd, "search_after", NextCursor(rs[Len(rs)]))
    ELSE dict_set(sd, "offset", NextOffset(sd, limit))

---------------------------------------------------------------------------
(* API.search: one pass of the loop, from the request to the first yield *)

\* "if not rows"
IsEmpty(rs) == Len(rs) = 0

\* first_id = rows[0].get("id")
FirstId(rs) == dict_get(rs[1], "id")

\* Mutant: the loop guard is missing.
GuardTrips_never(first_id, seen) == FALSE

\* "if first_id and first_id == last_seen_id"
GuardTrips(first_id, seen) == Truthy(first_id) /\ first_id = seen

\* Mutant: rows = data["rows"], a KeyError when the response has no rows field.
FetchOutcome_rowsRequired(response, seen) ==
    LET data == _handle_response(response)
        rs == dict_get_default(data.value, "rows", <<>>)
        keyError == [exc |-> "KeyError", value |-> EmptyDict, status_code |-> 0, response |-> ""]
    IN  IF data.exc # NoError THEN [kind |-> "raise", rows |-> <<>>, data |-> data]
        ELSE IF "rows" \notin DOMAIN data.value
             THEN [kind |-> "raise", rows |-> <<>>, data |-> keyError]
        ELSE IF IsEmpty(rs) THEN [kind |-> "empty", rows |-> rs, data |-> data]
        ELSE IF GuardTrips(FirstId(rs), seen) THEN [kind |-> "guard", rows |-> rs, data |-> data]
        ELSE [kind |-> "yield", rows |-> rs, data |-> data]

\* The outcome of a fetch: "raise", "empty" (break on no rows), "guard" (break
\* on the loop guard) or "yield" (the page is accepted and its first row yielded).
FetchOutcome(response, seen) ==
    LET data == _handle_response(response)
        rs == dict_get_default(data.value, "rows", <<>>)
    IN  IF data.exc # NoError THEN [kind |-> "raise", rows |-> <<>>, data |-> data]
        ELSE IF IsEmpty(rs) THEN [kind |-> "empty", rows |-> rs, data |-> data]
        ELSE IF GuardTrips(FirstId(rs), seen) THEN [kind |-> "guard", rows |-> rs, data |-> data]
        ELSE [kind |-> "yield", rows |-> rs, data |-> data]

\* Mutant: only the first row of a page is yielded.
PageDone_first(rs, i) == i >= 1

\* Mutant: the last row of a page of several rows is never yielded.
PageDone_skipLast(rs, i) == i >= Len(rs) - 1

\* "for row in rows" has no row left after the i-th
PageDone(rs, i) == i = Len(rs)

\* What next() gives the consumer
Yielded(row) == [kind |-> "yield", value |-> row, exc |-> NoError, status_code |-> 0, response |-> ""]
StopIteration == [kind |-> "stop", value |-> NoRow, exc |-> NoError, status_code |-> 0, response |-> ""]
Exception(data) ==
    [kind |-> "raise", value |-> NoRow, exc |-> data.exc,
     status_code |-> data.status_code, response |-> data.response]
NoOutput == [kind |-> "none", value |-> NoRow, exc |-> NoError, status_code |-> 0, response |-> ""]

\* requests.get with the query sd, answered by response, and the rest of the
\* loop body up to the first yield, break or raise.
Fetch(sd, seen, response) ==
    LET o == FetchOutcome(response, seen) IN
    /\ fetched' = TRUE
    /\ nreq' = Bump(nreq, MaxReq)
    /\ lastReq' = sd
    /\ prevReq' = lastReq
    /\ lastResp' = response
    /\ prevResp' = lastResp
    /\ uniform' = (uniform /\ (nreq = 0 \/ response = lastResp))
    /\ yielded_prev' = yielded_page
    /\ search_dict' = sd
    /\ IF o.kind = "yield"
       THEN /\ pc' = "suspended"
            /\ last_seen_id' = FirstId(o.rows)
            /\ rows' = o.rows
            /\ idx' = 1
            /\ out' = Yielded(o.rows[1])
            /\ yielded_page' = <<o.rows[1]>>
            /\ nyield' = Bump(nyield, MaxYield)
            /\ ndone' = IF Len(o.rows) = 1 THEN Bump(ndone, MaxReq) ELSE ndone
            /\ ended_by' = ended_by
       ELSE /\ pc' = "finished"
            /\ last_seen_id' = seen
            /\ rows' = IF o.kind = "raise" THEN rows ELSE o.rows
            /\ idx' = idx
            /\ out' = IF o.kind = "raise" THEN Exception(o.data) ELSE StopIteration
            /\ yielded_page' = <<>>
            /\ nyield' = nyield
            /\ ndone' = ndone
            /\ ended_by' = IF o.kind = "raise" THEN "error" ELSE o.kind

---------------------------------------------------------------------------
(* The caller's arguments *)

Offsets == {0, 1}
Limits == {1, 3}
SearchAfters == {None, Some(""), Some("x")}

\* the parameters named in the signature of search
ParamNames ==
    {"user", "authority", "uri", "url", "wildcard_uri", "text", "any_field", "tag", "tags",
     "group", "quote", "references", "sort", "order", "offset", "limit", "search_after"}

\* the value of a parameter: the keyword argument when given, else the default
Arg(kw, name, default) == IF name \in DOMAIN kw THEN kw[name] ELSE default

\* The binding of the call search(**kw); a keyword that names no parameter
\* goes to kwargs
Bind(kw) ==
    [user |-> Arg(kw, "user", None), authority |-> Arg(kw, "authority", None),
     uri |-> Arg(kw, "uri", None), url |-> Arg(kw, "url", None),
     wildcard_uri |-> Arg(kw, "wildcard_uri", None), text |-> Arg(kw, "text", None),
     any_field |-> Arg(kw, "any_field", None), tag |-> Arg(kw, "tag", None),
     tags |-> Arg(kw, "tags", None), group |-> Arg(kw, "group", None),
     quote |-> Arg(kw, "quote", None), references |-> Arg(kw, "references", None),
     sort |-> Arg(kw, "sort", None), order |-> Arg(kw, "order", "asc"),
     offset |-> Arg(kw, "offset", 0), limit |-> Arg(kw, "limit", 200),
     search_after |-> Arg(kw, "search_after", None),
     kwargs |-> [k \in DOMAIN kw \ ParamNames |-> kw[k]]]

\* calls that choose the pagination and leave every filter unset
PagedCalls ==
    {[offset |-> o, limit |-> l, search_after |-> sa] :
        o \in Offsets, l \in Limits, sa \in SearchAfters}

\* calls with tags
TagCalls ==
    { [tag |-> Some("single"), tags |-> Some(<<"multi1", "multi2">>)],
      [tags |-> Some(<<"multi1", "multi2">>), search_after |-> Some("x"), limit |-> 1],
      [tag |-> Some("single"), tags |-> Some(<<"single", "multi1">>), limit |-> 1],
      [tag |-> Some(""), tags |-> Some(<<"multi1">>), search_after |-> Some("")],
      [tag |-> Some("single"), tags |-> Some(<<>>), uri |-> Some("u"), order |-> "desc"] }

\* calls with other filters, with an extra keyword, with a large page size
FilterCalls ==
    { [user |-> Some("u"), text |-> Some(""), sort |-> Some("updated"),
       search_after |-> Some("x"), limit |-> 1],
      [user |-> Some("acct:u@example.org"), authority |-> Some("example.com"),
       url |-> Some("u"), custom |-> None, limit |-> 1],
      [user |-> Some("u"), authority |-> Some("example.com"), order |-> "desc", limit |-> 1],
      [user |-> Some("acct"), authority |-> Some(""), limit |-> 3],
      [limit |-> 201] }

Calls == PagedCalls \cup TagCalls \cup FilterCalls

NoArgs == Bind(EmptyDict)

---------------------------------------------------------------------------
(* API.search_raw and the direct calls of API._handle_response *)

\* statuses a server answers with
Statuses == {200, 201, 202, 204, 301, 400, 401, 403, 404, 429, 500, 503}

\* bodies whose number of rows and whose total vary apart
RawBodies ==
    {[rows |-> p, total |-> t] :
        p \in {<<>>, <<rA>>, <<rA, rB>>, <<rA, rB, rN>>}, t \in {0, 2, 1000}}

\* a body of rows under the statuses that are decoded, a text under the others
RawResponses ==
    {Response(st, body, "") : st \in {200, 201, 204}, body \in RawBodies}
    \cup {Response(st, EmptyDict, text) : st \in Statuses \ {200, 201, 204}, text \in {"", "body"}}

\* calls of search_raw: limit, offset and further search parameters
RawCalls ==
    { EmptyDict,
      [limit |-> 1],
      [limit |-> 2, offset |-> 5],
      [limit |-> 200, user |-> Some("acct:u@hypothes.is")],
      [offset |-> 1, tag |-> Some(<<"multi1", "multi2">>), uri |-> None] }

\* search_dict = {"limit": limit, "offset": offset, **kwargs} without the None values
RawQuery(kw) ==
    LET named == [limit |-> Some(Arg(kw, "limit", 20)), offset |-> Some(Arg(kw, "offset", 0))]
        kwargs == [k \in DOMAIN kw \ {"limit", "offset"} |-> kw[k]]
    IN  _remove_none(dict_update(named, kwargs))

NoCall ==
    [op |-> "none", kw |-> EmptyDict, query |-> NoDict, ngets |-> 0,
     response |-> NoResponse, result |-> Returned(EmptyDict)]

\* Mutant: search_raw goes on to the next page when the page it got is full.
search_raw_paging(kw, response) ==
    /\ raw' = [op |-> "search_raw", kw |-> kw, query |-> RawQuery(kw),
               ngets |-> IF Len(dict_get_default(response.json, "rows", <<>>)) >= Arg(kw, "limit", 20) THEN 2 ELSE 1,
               response |-> response, result |-> _handle_response(response)]
    /\ UNCHANGED <<searchvars, heap, gens, call, listing, tagging>>

\* api.search_raw(**kw), answered by response: one requests.get, and the
\* outcome of _handle_response is the outcome of the call.
search_raw(kw, response) ==
    /\ raw' = [op |-> "search_raw", kw |-> kw, query |-> RawQuery(kw), ngets |-> 1,
               response |-> response, result |-> _handle_response(response)]
    /\ UNCHANGED <<searchvars, heap, gens, call, listing, tagging>>

RawCall == \E kw \in RawCalls, response \in RawResponses : search_raw(kw, response)

\* api._handle_response(response), called on a response at hand
handle_response(response) ==
    /\ raw' = [op |-> "_handle_response", kw |-> EmptyDict, query |-> NoDict, ngets |-> 0,
               response |-> response, result |-> _handle_response(response)]
    /\ UNCHANGED <<searchvars, heap, gens, call, listing, tagging>>

HandleCall == \E response \in RawResponses : handle_response(response)

RawNext == RawCall \/ HandleCall

---------------------------------------------------------------------------
(* Concurrent searches: two generators made by the one API object. A frame  *)
(* holds the locals of a generator; its search_dict is the address of a dict *)
(* object on the heap, which the loop mutates in place. Each frame logs the  *)
(* queries it sent, the responses it got and the records it yielded.         *)

Gens == {1, 2}

\* Each concurrent search is followed for ConcReq requests.
ConcReq == 2

ConcCalls ==
    { [limit |-> 1, offset |-> 1],
      [search_after |-> Some("x"), limit |-> 3, tag |-> Some("single")] }

ConcResponses ==
    { Response(200, [rows |-> <<rA>>, total |-> 1], ""),
      Response(200, [rows |-> <<rB, rA>>, total |-> 2], ""),
      Response(200, [rows |-> <<>>, total |-> 0], ""),
      Response(500, EmptyDict, "Server Error") }

NoFrame ==
    [pc |-> "idle", args |-> NoArgs, search_dict |-> 0, use_cursor_pagination |-> FALSE,
     last_seen_id |-> None, rows |-> <<>>, idx |-> 0,
     reqs |-> <<>>, resps |-> <<>>, yields |-> <<>>]

\* Mutant: the query dict is one object kept for all searches.
NewAddress_shared(h) == 1

\* search_dict = {...}: a new dict object for every run of the body
NewAddress(h) == Len(h) + 1

\* the heap with the dict d at the address a
Store(h, a, d) == IF a > Len(h) THEN Append(h, d) ELSE [h EXCEPT ![a] = d]

\* api.search(**kw): a new generator, no statement of the body runs
gen_search(g, kw) ==
    /\ gens[g].pc = "idle"
    /\ gens' = [gens EXCEPT ![g] = [@ EXCEPT !.pc = "created", !.args = Bind(kw)]]
    /\ UNCHANGED <<heap, searchvars, raw, call, listing, tagging>>

\* requests.get with the dict the frame f refers to in the heap h, answered by
\* response, and the rest of the loop body up to the first yield, break or raise
gen_fetch(g, h, f, response) ==
    LET o == FetchOutcome(response, f.last_seen_id)
        logged == [f EXCEPT !.reqs = Append(@, h[f.search_dict]),
                            !.resps = Append(@, response)]
    IN  /\ heap' = h
        /\ gens' = [gens EXCEPT ![g] =
                IF o.kind = "yield"
                THEN [logged EXCEPT !.pc = "suspended", !.last_seen_id = FirstId(o.rows),
                                    !.rows = o.rows, !.idx = 1,
                                    !.yields = Append(@, o.rows[1])]
                ELSE [logged EXCEPT !.pc = "finished"]]
        /\ UNCHANGED <<searchvars, raw, call, listing, tagging>>

\* the first next(): the body builds its search_dict and sends the first request
gen_first(g) ==
    /\ gens[g].pc = "created"
    /\ LET a == NewAddress(heap)
           f == [gens[g] EXCEPT !.search_dict = a,
                                !.use_cursor_pagination = UseCursor(gens[g].args)]
       IN  \E response \in ConcResponses :
               gen_fetch(g, Store(heap, a, BuildQuery(gens[g].args)), f, response)

\* next() inside a page
gen_row(g) ==
    /\ gens[g].pc = "suspended"
    /\ ~PageDone(gens[g].rows, gens[g].idx)
    /\ gens' = [gens EXCEPT ![g] = [@ EXCEPT !.idx = @ + 1,
                                               !.yields = Append(@, gens[g].rows[gens[g].idx + 1])]]
    /\ UNCHANGED <<heap, searchvars, raw, call, listing, tagging>>

\* next() after the last row of a page: search_dict is updated in place and
\* the next request is sent
gen_page(g) ==
    /\ gens[g].pc = "suspended"
    /\ PageDone(gens[g].rows, gens[g].idx)
    /\ Len(gens[g].reqs) < ConcReq
    /\ LET f == gens[g]
           d == UpdatePagination(heap[f.search_dict], f.rows, f.args.limit,
                                 f.use_cursor_pagination)
       IN  \E response \in ConcResponses :
               gen_fetch(g, Store(heap, f.search_dict, d), f, response)

ConcCall == \E g \in Gens, kw \in ConcCalls : gen_search(g, kw)
ConcFirst == \E g \in Gens : gen_first(g)
ConcRow == \E g \in Gens : gen_row(g)
ConcPage == \E g \in Gens : gen_page(g)

ConcNext == ConcCall \/ ConcFirst \/ ConcRow \/ ConcPage

---------------------------------------------------------------------------
(* A search against a server that holds a fixed ordered list of records and  *)
(* caps the size of a page. The search runs in the frame of generator 1 and  *)
(* logs every request, response and yielded record.                          *)

\* The server holds up to MaxHeld records.
MaxHeld == 4

\* the i-th record of the list; every record has its own identifier
Record(i) == [id |-> ToString(i), created |-> "t"]

\* a list of n records
Held(n) == [i \in 1..n |-> Record(i)]

\* the lists a server may hold, with the page cap it applies
Listings == {[rows |-> Held(n), cap |-> c] : n \in 0..MaxHeld, c \in {1, 2, 3}}

NoListing == [rows |-> <<>>, cap |-> 0]

\* offset-mode searches: the limit, with and without a start offset
ListCalls ==
    {[limit |-> l] : l \in {1, 2, 3}}
    \cup {[limit |-> l, offset |-> o] : l \in {1, 2, 3}, o \in {1, 2}}

\* the number a query parameter spells in decimal digits
int(text) == CHOOSE n \in 0..(MaxHeld + 3) : ToString(n) = text

min(a, b) == IF a <= b THEN a ELSE b

\* the server's answer to the query: the rows at the positions
\* [offset, offset + min(limit, cap)) of its list
ListAnswer(l, query) ==
    LET offset == int(urlencode(query)["offset"][1])
        limit == int(urlencode(query)["limit"][1])
    IN  Response(200, [rows |-> SubSeq(l.rows, offset + 1,
                                       min(offset + min(limit, l.cap), Len(l.rows))),
                       total |-> Len(l.rows)], "")

ListCall == \E kw \in ListCalls : gen_search(1, kw)

\* the first next(): the first request, answered by the list server
ListFirst ==
    /\ gens[1].pc = "created"
    /\ LET a == NewAddress(heap)
           f == [gens[1] EXCEPT !.search_dict = a,
                                !.use_cursor_pagination = UseCursor(gens[1].args)]
           d == BuildQuery(gens[1].args)
       IN  gen_fetch(1, Store(heap, a, d), f, ListAnswer(listing, d))

ListRow == gen_row(1)

\* next() after the last row of a page: the next request, answered by the
\* list server
ListPage ==
    /\ gens[1].pc = "suspended"
    /\ PageDone(gens[1].rows, gens[1].idx)
    /\ LET f == gens[1]
           d == UpdatePagination(heap[f.search_dict], f.rows, f.args.limit,
                                 f.use_cursor_pagination)
       IN  gen_fetch(1, Store(heap, f.search_dict, d), f, ListAnswer(listing, d))

ListNext == ListCall \/ ListFirst \/ ListRow \/ ListPage

---------------------------------------------------------------------------
(* API.create, API.update_group, API.get_annotation and the deprecated       *)
(* API.search_id: plain calls that send at most one request. A call records   *)
(* the requests it sent, the response it got, its outcome, the warnings it    *)
(* emitted and the caller's payload as the call left it.                      *)

\* one call of requests.get / requests.post / requests.patch
Request(method, url, headers, json) ==
    [method |-> method, url |-> url, headers |-> headers, json |-> json]

\* a request without a json= argument
NoBody == EmptyDict

\* raise ValueError(...)
ValueError == [exc |-> "ValueError", value |-> EmptyDict, status_code |-> 0, response |-> ""]

\* Mutant: the Authorization header is sent whatever authenticated is.
_get_headers_always(authenticated) ==
    dict_set(("Content-Type" :> "application/json;charset=UTF-8") @@ ("Accept" :> "application/json"),
             "Authorization", "Bearer " \o self.api_key)

_get_headers(authenticated) ==
    LET headers == ("Content-Type" :> "application/json;charset=UTF-8")
                   @@ ("Accept" :> "application/json")
    IN  IF authenticated THEN dict_set(headers, "Authorization", "Bearer " \o self.api_key)
        ELSE headers

\* the annotation a server sends back
Annotation == [id |-> "a1", uri |-> "u", tags |-> <<"x">>]

\* answers to a plain call
CallResponses ==
    { Response(200, Annotation, ""),
      Response(204, EmptyDict, ""),
      Response(401, EmptyDict, "Unauthorized"),
      Response(403, EmptyDict, "Forbidden"),
      Response(404, EmptyDict, "Not Found"),
      Response(500, EmptyDict, "Server Error") }

\* permissions and document entries a payload may bring
OwnPermissions == [read |-> <<"acct:me@hypothes.is">>]
OwnDocument == [title |-> <<"T">>]

\* payloads given to create
Payloads ==
    { EmptyDict,
      [text |-> "t", group |-> "g1"],
      [uri |-> "u"],
      [uri |-> "u", group |-> "g1"],
      [uri |-> "u", group |-> "__world__", text |-> "t"],
      [uri |-> "u", user |-> "acct:other@hypothes.is"],
      [uri |-> "u", permissions |-> OwnPermissions],
      [uri |-> "u", document |-> OwnDocument],
      [uri |-> "u", group |-> "g1", user |-> "other", permissions |-> OwnPermissions,
       document |-> OwnDocument] }

\* calls of create: the payload, with or without the group argument
CreateCalls ==
    {[payload |-> p] : p \in Payloads}
    \cup {[payload |-> p, group |-> g] : p \in Payloads, g \in {"__world__", "g2"}}

\* calls of update_group
UpdateGroupCalls ==
    { [group_id |-> "g1"],
      [group_id |-> "g1", name |-> None, description |-> None],
      [group_id |-> "g1", name |-> Some("n")],
      [group_id |-> "g1", name |-> Some("")],
      [group_id |-> "g1", description |-> Some("d")],
      [group_id |-> "g1", name |-> Some("n"), description |-> Some("d")] }

\* calls of get_annotation
GetAnnotationCalls ==
    { [annotation_id |-> "a1"],
      [annotation_id |-> "a1", authenticated |-> TRUE],
      [annotation_id |-> "a1", authenticated |-> FALSE] }

NoRequest ==
    [op |-> "none", kw |-> EmptyDict, payload_after |-> EmptyDict, requests |-> <<>>,
     response |-> NoResponse, result |-> Returned(EmptyDict), warnings |-> <<>>]

\* Mutant: payload_out is the caller's dict itself.
dict_copy_alias(h, a) == [heap |-> h, at |-> a]

\* payload.copy(): a new dict object with the entries of the dict at address a
dict_copy(h, a) == [heap |-> Append(h, h[a]), at |-> Len(h) + 1]

\* d[k] = v on the dict object at address a
item_set(h, a, k, v) == [h EXCEPT ![a] = dict_set(@, k, v)]

\* Mutant: a payload without 'uri' is accepted.
MissingUri_accepted(payload) == FALSE

\* "uri" not in payload
MissingUri(payload) == "uri" \notin DOMAIN payload

\* Mutant: the group argument replaces the payload's group.
SetGroup_override(h, a, group) == item_set(h, a, "group", group)

\* "Only set group if not already in payload"
SetGroup(h, a, group) ==
    IF "group" \notin DOMAIN h[a] THEN item_set(h, a, "group", group) ELSE h

\* Mutant: every annotation is readable by the world.
read_permissions_world(effective_group) == <<"group:__world__">>

\* read_permissions
read_permissions(effective_group) ==
    IF effective_group = "__world__" THEN <<"group:__world__">>
    ELSE <<"group:" \o effective_group>>

\* api.create(**kw), answered by response. The caller's payload is the dict
\* object at address 1; every write of the body goes to the object that
\* payload_out refers to.
create(kw, response) ==
    LET payload == 1
        group == Arg(kw, "group", "__world__")
        h0 == <<kw.payload>>
    IN  IF MissingUri(h0[payload])
        THEN call' = [op |-> "create", kw |-> kw, payload_after |-> h0[payload],
                      requests |-> <<>>, response |-> NoResponse, result |-> ValueError,
                      warnings |-> <<>>]
        ELSE LET user_acct == _get_user_acct(None, "hypothes.is")
                 copied == dict_copy(h0, payload)
                 payload_out == copied.at
                 h1 == item_set(copied.heap, payload_out, "user", user_acct)
                 h2 == SetGroup(h1, payload_out, group)
                 effective_group == h2[payload_out].group
                 h3 == IF "permissions" \notin DOMAIN h2[payload]
                       THEN item_set(h2, payload_out, "permissions",
                                     [read |-> read_permissions(effective_group),
                                      update |-> <<user_acct>>, delete |-> <<user_acct>>,
                                      admin |-> <<user_acct>>])
                       ELSE h2
                 h4 == IF "document" \notin DOMAIN h3[payload]
                       THEN item_set(h3, payload_out, "document", EmptyDict)
                       ELSE h3
             IN  call' = [op |-> "create", kw |-> kw, payload_after |-> h4[payload],
                          requests |-> <<Request("POST", self.api_url \o "/annotations",
                                                 _get_headers(TRUE), h4[payload_out])>>,
                          response |-> response, result |-> _handle_response(response),
                          warnings |-> <<>>]

\* api.update_group(**kw), answered by response
update_group(kw, response) ==
    LET name == Arg(kw, "name", None)
        description == Arg(kw, "description", None)
        named == IF name # None THEN dict_set(EmptyDict, "name", TheValue(name)) ELSE EmptyDict
        payload == IF description # None
                   THEN dict_set(named, "description", TheValue(description)) ELSE named
    IN  IF payload = EmptyDict
        THEN call' = [op |-> "update_group", kw |-> kw, payload_after |-> EmptyDict,
                      requests |-> <<>>, response |-> NoResponse, result |-> ValueError,
                      warnings |-> <<>>]
        ELSE call' = [op |-> "update_group", kw |-> kw, payload_after |-> EmptyDict,
                      requests |-> <<Request("PATCH", self.api_url \o "/groups/" \o kw.group_id,
                                             _get_headers(TRUE), payload)>>,
                      response |-> response, result |-> _handle_response(response),
                      warnings |-> <<>>]

\* self.get_annotation(annotation_id, authenticated): the request it sends and
\* its outcome
GetAnnotation(annotation_id, authenticated, response) ==
    [requests |-> <<Request("GET", self.api_url \o "/annotations/" \o annotation_id,
                            _get_headers(authenticated), NoBody)>>,
     result |-> _handle_response(response)]

\* api.get_annotation(**kw), answered by response
get_annotation(kw, response) ==
    LET got == GetAnnotation(kw.annotation_id, Arg(kw, "authenticated", TRUE), response)
    IN  call' = [op |-> "get_annotation", kw |-> kw, payload_after |-> EmptyDict,
                 requests |-> got.requests, response |-> response, result |-> got.result,
                 warnings |-> <<>>]

\* Mutant: search_id answers None to every error.
search_id_quiet(_id, response) ==
    LET got == GetAnnotation(_id, TRUE, response)
    IN  call' = [op |-> "search_id", kw |-> [_id |-> _id], payload_after |-> EmptyDict,
                 requests |-> got.requests, response |-> response,
                 result |-> IF got.result.exc # NoError THEN Returned(None) ELSE got.result,
                 warnings |-> <<"DeprecationWarning">>]

\* api.search_id(_id), answered by response: the warning, then get_annotation
\* inside try / except NotFoundError
search_id(_id, response) ==
    LET got == GetAnnotation(_id, TRUE, response)
    IN  call' = [op |-> "search_id", kw |-> [_id |-> _id], payload_after |-> EmptyDict,
                 requests |-> got.requests, response |-> response,
                 result |-> IF got.result.exc = "NotFoundError" THEN Returned(None)
                            ELSE got.result,
                 warnings |-> <<"DeprecationWarning">>]

\* what a plain call leaves alone
callframe == <<searchvars, raw, heap, gens, listing, tagging>>

CreateCall ==
    \E kw \in CreateCalls, response \in CallResponses :
        create(kw, response) /\ UNCHANGED callframe
UpdateGroupCall ==
    \E kw \in UpdateGroupCalls, response \in CallResponses :
        update_group(kw, response) /\ UNCHANGED callframe
GetAnnotationCall ==
    \E kw \in GetAnnotationCalls, response \in CallResponses :
        get_annotation(kw, response) /\ UNCHANGED callframe
SearchIdCall ==
    \E response \in CallResponses : search_id("a1", response) /\ UNCHANGED callframe

\* api._get_headers(**kw), called by itself: no request, the headers are returned
get_headers(kw) ==
    call' = [op |-> "_get_headers", kw |-> kw, payload_after |-> EmptyDict, requests |-> <<>>,
             response |-> NoResponse,
             result |-> Returned(_get_headers(Arg(kw, "authenticated", TRUE))),
             warnings |-> <<>>]

HeadersCall ==
    \E kw \in {EmptyDict, [authenticated |-> TRUE], [authenticated |-> FALSE]} :
        get_headers(kw) /\ UNCHANGED callframe

CallNext == CreateCall \/ UpdateGroupCall \/ GetAnnotationCall \/ SearchIdCall \/ HeadersCall

---------------------------------------------------------------------------
(* examples/09_batch_tag_update.py: add_tag and remove_tag, run against a     *)
(* server that keeps one annotation, answers get_annotation with it and, on  *)
(* an update it accepts, replaces the entries the update names. Either       *)
(* request may be refused.                                                   *)

\* the tags used
Tags == {"x", "y", "z"}

\* the annotation as the server may hold it at first: without a tags entry,
\* without tags, with tags, with a tag twice
Annotations ==
    { [id |-> "a1"],
      [id |-> "a1", tags |-> <<>>],
      [id |-> "a1", tags |-> <<"x">>],
      [id |-> "a1", tags |-> <<"y", "x">>],
      [id |-> "a1", tags |-> <<"x", "y", "x">>] }

\* no call of the example yet, the server holds ann
Tagged(ann) ==
    [ann |-> ann, op |-> "none", tag |-> "", before |-> ann, requests |-> <<>>,
     result |-> Returned(<<>>)]

NoTagging == Tagged([id |-> "a1"])

\* x in seq
list_contains(seq, x) == \E i \in 1..Len(seq) : seq[i] = x

\* [t for t in seq if t != x]
list_without(seq, x) == SelectSeq(seq, LAMBDA t : t # x)

\* the server's answer to GET /annotations/<id>
GetAnswer(ann, ok) ==
    IF ok THEN Response(200, ann, "") ELSE Response(404, EmptyDict, "Not Found")

\* the server's answer to PATCH /annotations/<id> and the annotation it then holds
PatchAnswer(ann, payload, ok) ==
    IF ok THEN [response |-> Response(200, dict_update(ann, payload), ""),
                ann |-> dict_update(ann, payload)]
    ELSE [response |-> Response(403, EmptyDict, "Forbidden"), ann |-> ann]

\* self.update(annotation_id, payload): the request it sends and its outcome
Update(annotation_id, payload, response) ==
    [requests |-> <<Request("PATCH", self.api_url \o "/annotations/" \o annotation_id,
                            _get_headers(TRUE), payload)>>,
     result |-> _handle_response(response)]

\* the call fn(api, annotation_id, tag) is over: what it sent, its outcome and
\* the annotation the server holds now
TagDone(fn, tag, ann, requests, result) ==
    tagging' = [ann |-> ann, op |-> fn, tag |-> tag, before |-> tagging.ann,
                requests |-> requests, result |-> result]

\* api.update(annotation_id, {"tags": updated_tags}); return updated_tags
UpdateTags(annotation_id, updated_tags, patch_ok) ==
    LET payload == [tags |-> updated_tags]
        server == PatchAnswer(tagging.ann, payload, patch_ok)
        sent == Update(annotation_id, payload, server.response)
    IN  [ann |-> server.ann, requests |-> sent.requests,
         result |-> IF sent.result.exc # NoError THEN sent.result ELSE Returned(updated_tags)]

\* Mutant: add_tag appends the tag whether the annotation has it or not.
add_tag_always(annotation_id, new_tag, get_ok, patch_ok) ==
    LET got == GetAnnotation(annotation_id, TRUE, GetAnswer(tagging.ann, get_ok))
    IN  IF got.result.exc # NoError
        THEN TagDone("add_tag", new_tag, tagging.ann, got.requests, got.result)
        ELSE LET ann == got.result.value
                 current_tags == dict_get_default(ann, "tags", <<>>)
                 updated_tags == current_tags \o <<new_tag>>
                 updated == UpdateTags(annotation_id, updated_tags, patch_ok)
             IN  TagDone("add_tag", new_tag, updated.ann,
                         got.requests \o updated.requests, updated.result)

\* add_tag(api, annotation_id, new_tag)
add_tag(annotation_id, new_tag, get_ok, patch_ok) ==
    LET got == GetAnnotation(annotation_id, TRUE, GetAnswer(tagging.ann, get_ok))
    IN  IF got.result.exc # NoError
        THEN TagDone("add_tag", new_tag, tagging.ann, got.requests, got.result)
        ELSE LET ann == got.result.value
                 current_tags == dict_get_default(ann, "tags", <<>>)
             IN  IF ~list_contains(current_tags, new_tag)
                 THEN LET updated_tags == current_tags \o <<new_tag>>
                          updated == UpdateTags(annotation_id, updated_tags, patch_ok)
                      IN  TagDone("add_tag", new_tag, updated.ann,
                                  got.requests \o updated.requests, updated.result)
                 ELSE TagDone("add_tag", new_tag, tagging.ann, got.requests,
                              Returned(current_tags))

\* Mutant: remove_tag removes the first occurrence of the tag only.
remove_tag_first(annotation_id, tag_to_remove, get_ok, patch_ok) ==
    LET got == GetAnnotation(annotation_id, TRUE, GetAnswer(tagging.ann, get_ok))
    IN  IF got.result.exc # NoError
        THEN TagDone("remove_tag", tag_to_remove, tagging.ann, got.requests, got.result)
        ELSE LET ann == got.result.value
                 current_tags == dict_get_default(ann, "tags", <<>>)
             IN  IF list_contains(current_tags, tag_to_remove)
                 THEN LET at == CHOOSE i \in 1..Len(current_tags) :
                                    /\ current_tags[i] = tag_to_remove
                                    /\ \A j \in 1..(i - 1) : current_tags[j] # tag_to_remove
                          updated_tags == SubSeq(current_tags, 1, at - 1)
                                          \o SubSeq(current_tags, at + 1, Len(current_tags))
                          updated == UpdateTags(annotation_id, updated_tags, patch_ok)
                      IN  TagDone("remove_tag", tag_to_remove, updated.ann,
                                  got.requests \o updated.requests, updated.result)
                 ELSE TagDone("remove_tag", tag_to_remove, tagging.ann, got.requests,
                              Returned(current_tags))

\* remove_tag(api, annotation_id, tag_to_remove)
remove_tag(annotation_id, tag_to_remove, get_ok, patch_ok) ==
    LET got == GetAnnotation(annotation_id, TRUE, GetAnswer(tagging.ann, get_ok))
    IN  IF got.result.exc # NoError
        THEN TagDone("remove_tag", tag_to_remove, tagging.ann, got.requests, got.result)
        ELSE LET ann == got.result.value
                 current_tags == dict_get_default(ann, "tags", <<>>)
             IN  IF list_contains(current_tags, tag_to_remove)
                 THEN LET updated_tags == list_without(current_tags, tag_to_remove)
                          updated == UpdateTags(annotation_id, updated_tags, patch_ok)
                      IN  TagDone("remove_tag", tag_to_remove, updated.ann,
                                  got.requests \o updated.requests, updated.result)
                 ELSE TagDone("remove_tag", tag_to_remove, tagging.ann, got.requests,
                              Returned(current_tags))

\* what the example leaves alone
tagframe == <<searchvars, raw, heap, gens, call, listing>>

AddTag ==
    \E tag \in Tags, get_ok \in BOOLEAN, patch_ok \in BOOLEAN :
        add_tag("a1", tag, get_ok, patch_ok) /\ UNCHANGED tagframe
RemoveTag ==
    \E tag \in Tags, get_ok \in BOOLEAN, patch_ok \in BOOLEAN :
        remove_tag("a1", tag, get_ok, patch_ok) /\ UNCHANGED tagframe

TagNext == AddTag \/ RemoveTag

---------------------------------------------------------------------------
(* Actions *)

\* the API object as constructed, before any call
Constructed ==
    /\ pc = "idle"
    /\ raw = NoCall
    /\ heap = <<>>
    /\ gens = [g \in Gens |-> NoFrame]
    /\ call = NoRequest
    /\ args = NoArgs
    /\ given = {}
    /\ self = [api_url |-> "https://hypothes.is/api", app_url |-> "https://hypothes.is/app",
               username |-> "me", api_key |-> "key"]
    /\ search_dict = NoDict
    /\ use_cursor_pagination = FALSE
    /\ last_seen_id = None
    /\ rows = <<>>
    /\ idx = 0
    /\ out = NoOutput
    /\ ended_by = ""
    /\ asked_after_end = FALSE
    /\ fetched = FALSE
    /\ nreq = 0
    /\ nyield = 0
    /\ ndone = 0
    /\ lastReq = NoDict
    /\ prevReq = NoDict
    /\ lastResp = NoResponse
    /\ prevResp = NoResponse
    /\ uniform = TRUE
    /\ yielded_page = <<>>
    /\ yielded_prev = <<>>

Init == Constructed /\ listing = NoListing /\ tagging = NoTagging

\* the API object as constructed, and a server that holds a list
ListInit == Constructed /\ listing \in Listings /\ tagging = NoTagging

\* the API object as constructed, and a server that holds an annotation
TagInit == Constructed /\ listing = NoListing /\ tagging \in {Tagged(ann) : ann \in Annotations}

\* Mutant: search is no generator; the call itself runs the body to the first page.
search_eager(kw) ==
    /\ pc = "idle"
    /\ args' = Bind(kw)
    /\ given' = DOMAIN kw
    /\ use_cursor_pagination' = UseCursor(args')
    /\ \E response \in Responses : Fetch(BuildQuery(args'), None, response)
    /\ UNCHANGED <<asked_after_end, outside>>

\* api.search(**kw): the call binds the arguments and returns a generator; no
\* statement of the body runs.
search(kw) ==
    /\ pc = "idle"
    /\ pc' = "created"
    /\ args' = Bind(kw)
    /\ given' = DOMAIN kw
    /\ UNCHANGED <<genvars, obsvars, out, ended_by, asked_after_end, fetched, outside>>

Call == \E kw \in Calls : search(kw)

\* The first next(): the body runs from its first statement to the first yield.
NextFirst ==
    /\ pc = "created"
    /\ use_cursor_pagination' = UseCursor(args)
    /\ \E response \in Responses : Fetch(BuildQuery(args), None, response)
    /\ UNCHANGED <<args, given, asked_after_end, outside>>

\* Mutant: the for loop yields the row it yielded before and skips the next.
NextRow_again ==
    /\ pc = "suspended"
    /\ ~PageDone(rows, idx)
    /\ idx' = idx + 1
    /\ out' = Yielded(rows[idx])
    /\ yielded_page' = Append(yielded_page, rows[idx])
    /\ nyield' = Bump(nyield, MaxYield)
    /\ ndone' = IF idx + 1 = Len(rows) THEN Bump(ndone, MaxReq) ELSE ndone
    /\ fetched' = FALSE
    /\ UNCHANGED <<pc, args, given, outside, search_dict, use_cursor_pagination, last_seen_id, rows,
                   ended_by, asked_after_end, nreq, lastReq, prevReq, lastResp, prevResp,
                   uniform, yielded_prev>>

\* next() inside a page: the for loop yields the next row.
NextRow ==
    /\ pc = "suspended"
    /\ ~PageDone(rows, idx)
    /\ idx' = idx + 1
    /\ out' = Yielded(rows[idx + 1])
    /\ yielded_page' = Append(yielded_page, rows[idx + 1])
    /\ nyield' = Bump(nyield, MaxYield)
    /\ ndone' = IF idx + 1 = Len(rows) THEN Bump(ndone, MaxReq) ELSE ndone
    /\ fetched' = FALSE
    /\ UNCHANGED <<pc, args, given, outside, search_dict, use_cursor_pagination, last_seen_id, rows,
                   ended_by, asked_after_end, nreq, lastReq, prevReq, lastResp, prevResp,
                   uniform, yielded_prev>>

\* Mutant: the loop guard is consulted in offset mode only.
NextPage_guardOffsetOnly ==
    /\ pc = "suspended"
    /\ PageDone(rows, idx)
    /\ use_cursor_pagination \/ nreq < MaxReq
    /\ \E response \in Responses :
          Fetch(UpdatePagination(search_dict, rows, args.limit, use_cursor_pagination),
                IF use_cursor_pagination THEN None ELSE last_seen_id, response)
    /\ UNCHANGED <<args, given, use_cursor_pagination, asked_after_end, outside>>

\* next() after the last row of a page: the for loop ends, the pagination
\* parameter is updated and the loop goes round to the next request.
NextPage ==
    /\ pc = "suspended"
    /\ PageDone(rows, idx)
    /\ use_cursor_pagination \/ nreq < MaxReq
    /\ \E response \in Responses :
          Fetch(UpdatePagination(search_dict, rows, args.limit, use_cursor_pagination),
                last_seen_id, response)
    /\ UNCHANGED <<args, given, use_cursor_pagination, asked_after_end, outside>>

\* Mutant: next() on a finished generator issues the latest request again.
NextFinished_retry ==
    /\ pc = "finished"
    /\ nreq < MaxReq
    /\ \E response \in Responses : Fetch(search_dict, last_seen_id, response)
    /\ asked_after_end' = TRUE
    /\ UNCHANGED <<args, given, use_cursor_pagination, outside>>

\* next() on a generator that has returned or raised: StopIteration, nothing runs.
NextFinished ==
    /\ pc = "finished"
    /\ out' = StopIteration
    /\ asked_after_end' = TRUE
    /\ fetched' = FALSE
    /\ UNCHANGED <<pc, args, given, outside, genvars, obsvars, ended_by>>

Next == Call \/ NextFirst \/ NextRow \/ NextPage \/ NextFinished

Spec == Init /\ [][Next]_vars

\* Two searches on the one API object, their next() calls interleaved at will
ConcSpec == Init /\ [][ConcNext]_vars

\* A client that calls search_raw and _handle_response, one call after another
RawSpec == Init /\ [][RawNext]_vars

\* A client that calls create, update_group, get_annotation and search_id, one
\* call after another
CallSpec == Init /\ [][CallNext]_vars

\* One offset-mode search against a server that holds a fixed list
ListSpec == ListInit /\ [][ListNext]_vars

\* A script that calls add_tag and remove_tag on the one annotation, one call
\* after another
TagSpec == TagInit /\ [][TagNext]_vars

\* A consumer that keeps asking for records: list(api.search(...))
LiveSpec == Spec /\ WF_vars(Next)

---------------------------------------------------------------------------
(* What the claims speak of: the responses as the server sent them *)

\* a 2xx status
Success(resp) == resp.status_code \in 200..299

\* a status the client decodes: OK, Created, No Content
Decoded(resp) == resp.status_code \in {200, 201, 204}

\* the rows field of a response, empty when there is none
RowsOf(resp) == IF "rows" \in DOMAIN resp.json THEN resp.json.rows ELSE <<>>

\* a decoded response with at least one row
IsPage(resp) == Decoded(resp) /\ RowsOf(resp) # <<>>

\* a decoded response whose rows field is empty or missing
IsWithoutRows(resp) == Decoded(resp) /\ RowsOf(resp) = <<>>

\* the first record of the page carries an identifier: an id field that is not empty
HasFirstIdentifier(resp) ==
    /\ IsPage(resp)
    /\ "id" \in DOMAIN RowsOf(resp)[1]
    /\ RowsOf(resp)[1].id # ""

FirstIdentifier(resp) == RowsOf(resp)[1].id

---------------------------------------------------------------------------
\* C1: in either pagination mode, a fetch whose response has an empty or
\* missing rows field ends the iteration normally: that next() call gives
\* StopIteration, yields nothing and raises nothing, and afterwards no request
\* is issued; when it is the first response, the search has yielded zero
\* records with exactly one request.
C1_EmptyPageEnds ==
    [][ /\ (fetched' /\ IsWithoutRows(lastResp')) =>
             /\ pc' = "finished"
             /\ out' = StopIteration
             /\ ended_by' = "empty"
             /\ nyield' = nyield
             /\ yielded_page' = <<>>
        /\ (fetched' /\ IsWithoutRows(lastResp') /\ prevResp' = NoResponse) =>
             (nreq' = 1 /\ nyield' = 0)
        /\ (pc = "finished" /\ ended_by = "empty") =>
             (pc' = "finished" /\ ~fetched' /\ nreq' = nreq /\ nyield' = nyield
              /\ out' = StopIteration)
      ]_vars

\* a cursor-mode search ended by a second response that has no rows field,
\* and the consumer has asked once more
C1_Witness ==
    /\ pc = "finished" /\ ended_by = "empty" /\ asked_after_end
    /\ args.search_after # None
    /\ nreq = 2
    /\ "rows" \notin DOMAIN lastResp.json

\* C2: loop guard: when two consecutively fetched pages have the same
\* first-record identifier, the iteration stops at the fetch of the second:
\* none of its records is yielded, and the records yielded are those of the
\* first page, once. (That no request follows the end is C6.)
C2_LoopGuard ==
    [][ ( /\ fetched'
          /\ HasFirstIdentifier(prevResp') /\ HasFirstIdentifier(lastResp')
          /\ FirstIdentifier(prevResp') = FirstIdentifier(lastResp') ) =>
             /\ pc' = "finished"
             /\ out' = StopIteration
             /\ ended_by' = "guard"
             /\ nyield' = nyield
             /\ yielded_page' = <<>>
             /\ yielded_prev' = RowsOf(prevResp')
      ]_vars

\* the guard has stopped a search at a second page that differs from the
\* first one but starts with the same record
C2_Witness ==
    /\ pc = "finished" /\ ended_by = "guard"
    /\ nreq = 2
    /\ RowsOf(prevResp) = <<rA, rN>> /\ RowsOf(lastResp) = <<rA>>
    /\ yielded_prev = <<rA, rN>>

\* C3: against a server that answers every request with the same non-empty
\* page, the search makes at most two requests and yields the records of the
\* page once, whatever the page.
C3_SamePageOnce ==
    (uniform /\ nreq >= 1 /\ IsPage(lastResp)) =>
        /\ nreq <= 2
        /\ nyield <= Len(RowsOf(lastResp))
        /\ (nreq = 2 => pc = "finished")

---------------------------------------------------------------------------
\* an offset-mode search at the bound of the model
OffsetBoundReached == pc = "suspended" /\ args.search_after = None /\ nreq = MaxReq

\* a page that does not end the iteration: it has rows, and its first record
\* does not carry the identifier of the first record of the page before
FreshPage(prev, last) ==
    /\ IsPage(last)
    /\ ~( /\ HasFirstIdentifier(prev) /\ HasFirstIdentifier(last)
          /\ FirstIdentifier(prev) = FirstIdentifier(last) )

\* the latest page starts with a record that carries no identifier (the
\* pages of C3, which the loop guard lets through)
PageWithoutIdentifier == IsPage(lastResp) /\ ~HasFirstIdentifier(lastResp)

\* C4 as claimed: every iteration of a consumer that keeps asking reaches
\* its end. Stated up to the bound on offset-mode searches, and leaving the
\* pages of C3 aside: the claim implies that every behaviour reaches the end,
\* the bound or such a page.
C4_EveryIterationEnds ==
    <>(pc = "finished" \/ OffsetBoundReached \/ PageWithoutIdentifier)

\* C4 as amended: a fetch ends the iteration exactly when its response is not
\* a fresh page, and an iteration that never ends is one whose server goes on
\* sending fresh pages for ever.
C4_EndsUnlessFreshPagesForever ==
    /\ [](fetched => (pc = "finished" <=> ~FreshPage(prevResp, lastResp)))
    /\ \/ <>(pc = "finished" \/ OffsetBoundReached)
       \/ []<>(fetched /\ FreshPage(prevResp, lastResp))

\* a cursor-mode search that went on for more requests than are counted and
\* was then ended by the loop guard
C4_Witness ==
    /\ pc = "finished" /\ ended_by = "guard"
    /\ args.search_after # None
    /\ nreq = MaxReq /\ ndone = MaxReq

\* the typed error of a status
ErrorOf(status) ==
    IF status = 401 THEN "AuthenticationError"
    ELSE IF status = 403 THEN "ForbiddenError"
    ELSE IF status = 404 THEN "NotFoundError"
    ELSE "HypothesisAPIError"

\* C5: a fetch answered with a non-success status makes that next() call
\* raise the typed error, with the status code and the body; every record of
\* the pages fetched before has been yielded by then (none at all when it is
\* the first fetch), and afterwards the count of yielded records stays.
C5_ErrorAborts ==
    [][ /\ (fetched' /\ ~Success(lastResp')) =>
             /\ pc' = "finished"
             /\ ended_by' = "error"
             /\ out'.kind = "raise"
             /\ out'.exc = ErrorOf(lastResp'.status_code)
             /\ out'.status_code = lastResp'.status_code
             /\ out'.response = lastResp'.text
             /\ nyield' = nyield
             /\ yielded_page' = <<>>
             /\ yielded_prev' = RowsOf(prevResp')
             /\ ndone = nreq
             /\ (prevResp' = NoResponse => nyield' = 0)
        /\ (pc = "finished" /\ ended_by = "error") =>
             (pc' = "finished" /\ nyield' = nyield /\ ~fetched' /\ out'.kind = "stop")
      ]_vars

\* a 403 on the second fetch, after the two records of the first page
C5_Witness ==
    /\ pc = "finished" /\ ended_by = "error"
    /\ out.exc = "ForbiddenError"
    /\ nreq = 2 /\ nyield = 2 /\ Len(yielded_prev) = 2

\* C6: the finished generator stays finished: every later next() gives
\* StopIteration, yields nothing and issues no request, whatever ended it.
C6_Terminal ==
    [][ pc = "finished" =>
          /\ pc' = "finished"
          /\ out' = StopIteration
          /\ ~fetched'
          /\ nreq' = nreq /\ lastReq' = lastReq /\ lastResp' = lastResp
          /\ nyield' = nyield /\ yielded_page' = yielded_page
          /\ ended_by' = ended_by
      ]_vars

\* the consumer asked again after an error on the second fetch
C6_Witness ==
    /\ pc = "finished" /\ ended_by = "error" /\ asked_after_end
    /\ out = StopIteration
    /\ nreq = 2

\* C7: in offset mode the k-th request carries
\* offset = initial offset + (k-1) * limit.
C7_OffsetAdvance ==
    (args.search_after = None /\ nreq >= 1) =>
        /\ "offset" \in DOMAIN lastReq
        /\ lastReq.offset = args.offset + (nreq - 1) * args.limit

\* the third request of a search from offset 1 with limit 3, after a page of
\* one row and a page of two
C7_Witness ==
    /\ args.search_after = None /\ args.offset = 1 /\ args.limit = 3
    /\ nreq = 3 /\ lastReq.offset = 7
    /\ Len(yielded_prev) = 2 /\ nyield = 3

\* C8: a first page of fewer rows than limit followed by an empty page: the
\* search ends at the second request having yielded the rows of the first
\* page, in order, and nothing else.
C8_ShortPageThenEmpty ==
    ( /\ nreq = 2
      /\ IsPage(prevResp) /\ Len(RowsOf(prevResp)) < args.limit
      /\ IsWithoutRows(lastResp) ) =>
        /\ pc = "finished"
        /\ ended_by = "empty"
        /\ out = StopIteration
        /\ yielded_prev = RowsOf(prevResp)
        /\ yielded_page = <<>>
        /\ nyield = Len(RowsOf(prevResp))

\* two rows with limit 3, then an empty page
C8_Witness ==
    /\ pc = "finished" /\ asked_after_end
    /\ args.limit = 3
    /\ nreq = 2
    /\ yielded_prev = <<rB, rA>>
    /\ IsWithoutRows(lastResp)

\* C9: a request is issued only by a next() call made when every record of
\* the page before has been handed over; each such call issues one request;
\* the requests issued are at most one more than the pages fully delivered.
C9_OneRequestPerPage ==
    [][ /\ nreq' <= ndone' + 1
        /\ fetched' =>
             /\ yielded_page = RowsOf(lastResp)
             /\ ndone = nreq
             /\ nreq' = Bump(nreq, MaxReq)
             /\ out'.kind # "none"
        /\ ~fetched' => (nreq' = nreq /\ lastReq' = lastReq /\ lastResp' = lastResp)
      ]_vars

\* the consumer is inside the second page: two requests, one page delivered
C9_Witness ==
    /\ pc = "suspended"
    /\ nreq = 2 /\ ndone = 1
    /\ Len(RowsOf(lastResp)) = 2 /\ Len(yielded_page) = 1

\* C10: the call search() issues no request; the first request is issued by
\* the first next().
C10_Lazy ==
    [][ /\ pc = "idle" =>
             (pc' = "created" /\ ~fetched' /\ nreq' = 0 /\ lastReq' = NoDict
              /\ out' = NoOutput)
        /\ pc = "created" => (fetched' /\ nreq' = 1 /\ out'.kind # "none")
      ]_vars

\* search() has returned and nothing was requested
C10_Witness ==
    /\ pc = "created"
    /\ args.limit = 3 /\ args.search_after = Some("x")
    /\ nreq = 0 /\ ~fetched

---------------------------------------------------------------------------
(* What the claims speak of: the requests as the server receives them *)

\* the request carries a parameter of that name in its query string
Carries(req, name) == name \in DOMAIN urlencode(req)

\* the values the request carries under that name, in order
ValuesOf(req, name) == IF Carries(req, name) THEN urlencode(req)[name] ELSE <<>>

\* the caller gave a continuation token
CursorMode == args.search_after # None

\* a request of the mode the caller chose: search_after and no offset when a
\* token was given, offset and no search_after otherwise
OfChosenMode(req) ==
    IF CursorMode
    THEN Carries(req, "search_after") /\ ~Carries(req, "offset")
    ELSE Carries(req, "offset") /\ ~Carries(req, "search_after")

---------------------------------------------------------------------------
\* C11: the two pagination modes exclude each other for the whole search:
\* when search_after is given every request carries search_after and none
\* carries offset; when it is not given every request carries offset and none
\* carries search_after.
C11_ModesExclusive ==
    /\ nreq >= 1 => OfChosenMode(lastReq)
    /\ nreq >= 2 => OfChosenMode(prevReq)

\* a cursor-mode search called with an offset of 1 has sent its third request
C11_Witness ==
    /\ CursorMode /\ args.offset = 1
    /\ nreq = 3 /\ fetched
    /\ ValuesOf(lastReq, "search_after") # ValuesOf(prevReq, "search_after")

\* a field of a record as text, empty when the record has no such field
FieldOf(row, name) == IF name \in DOMAIN row THEN row[name] ELSE ""

\* the last record of a page
LastRecord(resp) == RowsOf(resp)[Len(RowsOf(resp))]

\* C12: in cursor mode the first request carries the caller's search_after
\* unchanged, and the request after a page carries as search_after the
\* creation timestamp of the last record of that page followed by its identifier.
C12_CursorToken ==
    CursorMode =>
        /\ nreq = 1 => ValuesOf(lastReq, "search_after") = <<TheValue(args.search_after)>>
        /\ nreq >= 2 =>
              ValuesOf(lastReq, "search_after") =
                  <<FieldOf(LastRecord(prevResp), "created") \o FieldOf(LastRecord(prevResp), "id")>>

\* the third request of a cursor-mode search, sent after a page of two records
\* that ends with record a
C12_Witness ==
    /\ CursorMode /\ nreq = 3 /\ fetched
    /\ RowsOf(prevResp) = <<rB, rA>>
    /\ ValuesOf(lastReq, "search_after") = <<"ta">>
    /\ ValuesOf(prevReq, "search_after") # <<"ta">>

\* two pages, the second fetched right after the first, whose first records
\* carry the same identifier
SameFirstIdentifier(prev, last) ==
    /\ HasFirstIdentifier(prev) /\ HasFirstIdentifier(last)
    /\ FirstIdentifier(prev) = FirstIdentifier(last)

\* C13 as stated: the loop guard is an offset-mode mechanism; in cursor mode a
\* search ends only on an empty page or on an error, and a non-empty page is
\* always yielded.
C13_GuardOffsetOnly ==
    [][ (CursorMode /\ fetched') =>
            /\ IsPage(lastResp') =>
                  (pc' = "suspended" /\ out' = Yielded(RowsOf(lastResp')[1]))
            /\ pc' = "finished" => ended_by' \in {"empty", "error"}
      ]_vars

\* C13, amended: the loop guard works in cursor mode as well; a cursor-mode
\* search ends on an empty page, on an error, or at a page whose first record
\* carries the identifier of the first record of the page before, which is
\* not yielded; every other non-empty page is yielded.
C13_GuardInCursorMode ==
    [][ (CursorMode /\ fetched') =>
            /\ (IsPage(lastResp') /\ ~SameFirstIdentifier(prevResp', lastResp')) =>
                  (pc' = "suspended" /\ out' = Yielded(RowsOf(lastResp')[1]))
            /\ (IsPage(lastResp') /\ SameFirstIdentifier(prevResp', lastResp')) =>
                  (pc' = "finished" /\ ended_by' = "guard" /\ out' = StopIteration
                   /\ yielded_page' = <<>>)
            /\ pc' = "finished" => ended_by' \in {"empty", "error", "guard"}
      ]_vars

\* a cursor-mode search stopped by the guard at its second page
C13_Witness ==
    /\ CursorMode /\ pc = "finished" /\ ended_by = "guard"
    /\ nreq = 2 /\ fetched
    /\ RowsOf(prevResp) = <<rA>> /\ RowsOf(lastResp) = <<rA, rN>>
    /\ ValuesOf(lastReq, "search_after") = <<"ta">>

\* the first n rows of a page
FirstRows(resp, n) == SubSeq(RowsOf(resp), 1, n)

\* C14: the records yielded are the rows of the pages fetched, page after
\* page and row after row, and nothing else. Stated request by request: the
\* records yielded since the latest request are the first rows of its page,
\* each next() that yields gives the row after them, unaltered; when the next
\* request is sent all rows of the page before have been yielded; and the
\* response that ends the search (empty, error, or the page that trips the
\* loop guard) contributes nothing.
C14_YieldsArePages ==
    /\ [](pc = "suspended" =>
            /\ Len(yielded_page) \in 1..Len(RowsOf(lastResp))
            /\ yielded_page = FirstRows(lastResp, Len(yielded_page))
            /\ out = Yielded(RowsOf(lastResp)[Len(yielded_page)]))
    /\ [](pc = "finished" => (yielded_page = <<>> /\ out.kind # "yield"))
    /\ [][ /\ out'.kind = "yield" =>
                 IF fetched' THEN yielded_page' = <<out'.value>>
                 ELSE yielded_page' = Append(yielded_page, out'.value)
           /\ out'.kind # "yield" => (yielded_page' = <<>> \/ yielded_page' = yielded_page)
           /\ fetched' =>
                 yielded_prev' = (IF nreq = 0 THEN <<>> ELSE RowsOf(prevResp'))
           /\ ~fetched' => yielded_prev' = yielded_prev
         ]_vars

\* two pages of two records each were yielded and the third response was empty
C14_Witness ==
    /\ pc = "finished" /\ ended_by = "empty"
    /\ nreq = 3 /\ nyield = 3
    /\ RowsOf(prevResp) = <<rB, rA>> /\ yielded_prev = <<rB, rA>>
    /\ ValuesOf(prevReq, "offset") = <<"3">>

\* the single tag the caller gave, if any (an empty string is no tag), and the
\* list of tags the caller gave
SingleTag == IF args.tag \in {None, Some("")} THEN <<>> ELSE <<TheValue(args.tag)>>
ListTags == IF args.tags = None THEN <<>> ELSE TheValue(args.tags)
GivenTags == SingleTag \o ListTags

\* the elements of a sequence
Range(seq) == {seq[i] : i \in DOMAIN seq}

\* the sequence without the later occurrences of an element
RECURSIVE Distinct(_)
Distinct(seq) ==
    IF seq = <<>> THEN <<>>
    ELSE LET front == Distinct(SubSeq(seq, 1, Len(seq) - 1))
             last == seq[Len(seq)]
         IN  IF last \in Range(front) THEN front ELSE Append(front, last)

\* C15 as stated: every request carries one tag= parameter per distinct tag,
\* the single tag first and then the tags of the list in the given order, and
\* no request carries a tags= parameter.
C15_OnePerDistinctTag ==
    /\ nreq >= 1 =>
          (ValuesOf(lastReq, "tag") = Distinct(GivenTags) /\ ~Carries(lastReq, "tags"))
    /\ nreq >= 2 =>
          (ValuesOf(prevReq, "tag") = Distinct(GivenTags) /\ ~Carries(prevReq, "tags"))

\* C15, amended: every request carries one tag= parameter per tag given, the
\* single tag first and then the tags of the list in the given order, a tag
\* given twice being sent twice; no request carries a tags= parameter.
C15_OnePerGivenTag ==
    /\ nreq >= 1 =>
          (ValuesOf(lastReq, "tag") = GivenTags /\ ~Carries(lastReq, "tags"))
    /\ nreq >= 2 =>
          (ValuesOf(prevReq, "tag") = GivenTags /\ ~Carries(prevReq, "tags"))

\* the second request of search(tag="single", tags=["multi1", "multi2"])
C15_Witness ==
    /\ args.tag = Some("single") /\ args.tags = Some(<<"multi1", "multi2">>)
    /\ nreq = 2 /\ fetched
    /\ ValuesOf(lastReq, "tag") = <<"single", "multi1", "multi2">>
    /\ ValuesOf(lastReq, "offset") = <<"200">>

\* the filters of a query, each with the arguments of search that set it
FilterNames ==
    {"user", "uri", "wildcard_uri", "tag", "group", "sort", "order", "text", "quote",
     "references"}

ArgumentsOf(filter) ==
    IF filter = "uri" THEN {"uri", "url"}
    ELSE IF filter = "tag" THEN {"tag", "tags"}
    ELSE {filter}

\* the caller left the filter unset: none of its arguments was passed, or None was
Unset(filter) ==
    \A a \in ArgumentsOf(filter) : a \notin given \/ args[a] = None

\* no parameter of the request is a null
NoNull(req) ==
    \A k \in DOMAIN urlencode(req) :
        \A i \in DOMAIN urlencode(req)[k] : urlencode(req)[k][i] # "None"

\* the request carries none of the filters of the set that the caller left unset
OmitsUnset(req, filters) ==
    /\ \A f \in filters : Unset(f) => ~Carries(req, f)
    /\ NoNull(req)

\* C16 as stated: a filter (user, uri, wildcard_uri, tag, group, sort, order,
\* text, quote, references) that the caller leaves unset is in no request of
\* the search, and no parameter of a request is a null.
C16_UnsetOmitted ==
    /\ nreq >= 1 => OmitsUnset(lastReq, FilterNames)
    /\ nreq >= 2 => OmitsUnset(prevReq, FilterNames)

\* C16, amended: the same for every filter but order; order is in every
\* request, with the value asc when the caller leaves it unset.
C16_UnsetOmittedButOrder ==
    /\ nreq >= 1 =>
          /\ OmitsUnset(lastReq, FilterNames \ {"order"})
          /\ ValuesOf(lastReq, "order") = <<IF "order" \in given THEN args.order ELSE "asc">>
    /\ nreq >= 2 =>
          /\ OmitsUnset(prevReq, FilterNames \ {"order"})
          /\ ValuesOf(prevReq, "order") = <<IF "order" \in given THEN args.order ELSE "asc">>

\* the second request of a search with a user, an empty text and a sort, and
\* with no order: the text is sent empty, the filters left unset are not sent
C16_Witness ==
    /\ given = {"user", "text", "sort", "search_after", "limit"}
    /\ nreq = 2 /\ fetched
    /\ ValuesOf(lastReq, "text") = <<"">>
    /\ ValuesOf(lastReq, "user") = <<"acct:u@hypothes.is">>
    /\ ~Carries(lastReq, "uri") /\ ~Carries(lastReq, "tag")
    /\ ValuesOf(lastReq, "order") = <<"asc">>

\* the documented maximum of the page size: "limit: Maximum results per page (max 200)"
DocumentedMaximum == 200

\* the limit the request carries is a number up to the documented maximum
WithinMaximum(req) ==
    \E n \in 0..DocumentedMaximum : ValuesOf(req, "limit") = <<ToString(n)>>

\* C19: every request of a search carries a limit that does not exceed the
\* documented maximum of 200, and a search called without a limit carries
\* that maximum.
C19_LimitWithinMaximum ==
    /\ nreq >= 1 => WithinMaximum(lastReq)
    /\ nreq >= 2 => WithinMaximum(prevReq)
    /\ (nreq >= 1 /\ "limit" \notin given) =>
          ValuesOf(lastReq, "limit") = <<ToString(DocumentedMaximum)>>

---------------------------------------------------------------------------
(* What the claims speak of: the outcome of a call that is no generator *)

\* the call returned that value
Returns(value) == raw.result.exc = NoError /\ raw.result.value = value

\* the call raised an error of that class, which carries the status code and
\* the raw body of the response
Raises(class) ==
    /\ raw.result.exc = class
    /\ raw.result.status_code = raw.response.status_code
    /\ raw.result.response = raw.response.text

\* C17: _handle_response maps every status to one outcome: 200 and 201 return
\* the decoded body, 204 returns an empty mapping, 401 raises
\* AuthenticationError, 403 ForbiddenError, 404 NotFoundError, every other
\* status that is no success raises HypothesisAPIError; every error carries
\* the status code and the raw body.
C17_StatusToOutcome ==
    raw.op = "_handle_response" =>
        LET status == raw.response.status_code IN
        /\ status \in {200, 201} => Returns(raw.response.json)
        /\ status = 204 => Returns(EmptyDict)
        /\ status = 401 => Raises("AuthenticationError")
        /\ status = 403 => Raises("ForbiddenError")
        /\ status = 404 => Raises("NotFoundError")
        /\ (~Success(raw.response) /\ status \notin {401, 403, 404}) =>
              Raises("HypothesisAPIError")
        /\ Returns(raw.result.value) \/ Raises(raw.result.exc)

\* _handle_response has raised the base error for a 429 with a body
C17_Witness ==
    /\ raw.op = "_handle_response"
    /\ raw.response.status_code = 429 /\ raw.response.text = "body"
    /\ raw.result.exc = "HypothesisAPIError" /\ raw.result.response = "body"

\* C20: one call of search_raw issues exactly one GET and returns the decoded
\* response, its rows and its total as they came, whatever their numbers; an
\* error status is raised after that one GET.
C20_RawOnePage ==
    raw.op = "search_raw" =>
        /\ raw.ngets = 1
        /\ raw.query = RawQuery(raw.kw)
        /\ raw.response.status_code \in {200, 201} =>
              /\ Returns(raw.response.json)
              /\ raw.result.value.rows = raw.response.json.rows
              /\ raw.result.value.total = raw.response.json.total
        /\ ~Decoded(raw.response) => Raises(ErrorOf(raw.response.status_code))

\* search_raw(limit=1) has returned a page of three rows with a total of 1000
C20_Witness ==
    /\ raw.op = "search_raw" /\ raw.ngets = 1
    /\ ValuesOf(raw.query, "limit") = <<"1">>
    /\ raw.response.status_code = 200
    /\ Len(raw.result.value.rows) = 3 /\ raw.result.value.total = 1000

---------------------------------------------------------------------------
(* What the claims speak of: a search run alone *)

\* The queries sent and the records yielded by a search with the arguments a
\* that runs alone, is about to send the query sd with the loop-guard memory
\* seen, and is answered with resps, one response per request.
RECURSIVE LoneRun(_, _, _, _)
LoneRun(a, sd, seen, resps) ==
    IF resps = <<>> THEN [reqs |-> <<>>, yields |-> <<>>]
    ELSE LET o == FetchOutcome(Head(resps), seen) IN
         IF o.kind = "yield"
         THEN LET rest == LoneRun(a, UpdatePagination(sd, o.rows, a.limit, UseCursor(a)),
                                  FirstId(o.rows), Tail(resps))
              IN  [reqs |-> <<sd>> \o rest.reqs, yields |-> o.rows \o rest.yields]
         ELSE [reqs |-> <<sd>>, yields |-> <<>>]

Alone(g) == LoneRun(gens[g].args, BuildQuery(gens[g].args), None, gens[g].resps)

\* the generator has yielded every record of the pages it fetched
AllYielded(g) ==
    gens[g].pc = "finished" \/ PageDone(gens[g].rows, gens[g].idx)

\* the dict object the search_dict of the generator refers to
DictOf(g) == IF gens[g].search_dict = 0 THEN NoDict ELSE heap[gens[g].search_dict]

\* C18: concurrent searches share no mutable state. Two searches made by the
\* one API object and advanced in any interleaving each send the queries and
\* yield the records of a search run alone on the same responses; their
\* search_dict are two objects; a step of one leaves the locals and the
\* search_dict of the other as they are, and no step changes a field of the
\* API object.
C18_NoSharedState ==
    /\ [](\A g \in Gens :
            /\ gens[g].reqs = Alone(g).reqs
            /\ Len(gens[g].yields) <= Len(Alone(g).yields)
            /\ gens[g].yields = SubSeq(Alone(g).yields, 1, Len(gens[g].yields))
            /\ AllYielded(g) => gens[g].yields = Alone(g).yields)
    /\ [](\A g, h \in Gens :
            (g # h /\ gens[g].search_dict # 0) => gens[g].search_dict # gens[h].search_dict)
    /\ [][ /\ \E g \in Gens : \A h \in Gens \ {g} :
                 gens'[h] = gens[h] /\ DictOf(h)' = DictOf(h)
           /\ self' = self
         ]_vars

\* an offset-mode search and a cursor-mode search, each suspended inside its
\* second page, with their own offset and token
C18_Witness ==
    /\ gens[1].pc = "suspended" /\ gens[2].pc = "suspended"
    /\ ~UseCursor(gens[1].args) /\ UseCursor(gens[2].args)
    /\ Len(gens[1].reqs) = 2 /\ Len(gens[2].reqs) = 2
    /\ gens[1].search_dict = 2 /\ gens[2].search_dict = 1
    /\ ValuesOf(DictOf(1), "offset") = <<"2">>
    /\ ValuesOf(DictOf(2), "search_after") = <<"ta">>
    /\ Len(gens[1].yields) = 2 /\ Len(gens[2].yields) = 3

---------------------------------------------------------------------------
(* The plain calls: what was asked, what was sent, what came back *)

\* the call raised ValueError and sent no request
ValueErrorUnsent == call.result.exc = "ValueError" /\ call.requests = <<>>

\* the keyword argument of the call, or None when the caller left it out or
\* passed None
Passed(name) == IF name \in DOMAIN call.kw THEN call.kw[name] ELSE None

\* the json body of the one request the call sent
Body == call.requests[1].json

\* C21: create with a payload that has no 'uri' key raises ValueError before
\* any HTTP request is sent, and update_group called with neither name nor
\* description raises ValueError before any HTTP request is sent.
C21_ValueErrorBeforeRequest ==
    /\ (call.op = "create" /\ "uri" \notin DOMAIN call.kw.payload) => ValueErrorUnsent
    /\ (call.op = "update_group" /\ Passed("name") = None /\ Passed("description") = None)
           => ValueErrorUnsent

\* create was given a payload with a text and a group but no uri, and raised
\* ValueError without a request
C21_Witness ==
    /\ call.op = "create"
    /\ DOMAIN call.kw.payload = {"text", "group"}
    /\ ValueErrorUnsent

\* C22: create does not override a group already in the payload: the request
\* body carries the payload's own group when the payload has one, and the
\* group argument (default __world__) only when the payload has none.
C22_PayloadGroupKept ==
    (call.op = "create" /\ call.requests # <<>>) =>
        Body.group = IF "group" \in DOMAIN call.kw.payload THEN call.kw.payload.group
                     ELSE IF "group" \in DOMAIN call.kw THEN call.kw.group
                     ELSE "__world__"

\* create was called with the group argument g2 and a payload of group g1, and
\* sent g1
C22_Witness ==
    /\ call.op = "create"
    /\ call.requests # <<>>
    /\ "group" \in DOMAIN call.kw /\ call.kw.group = "g2"
    /\ "group" \in DOMAIN call.kw.payload /\ call.kw.payload.group = "g1"
    /\ Body.group = "g1"

\* the authenticated argument of the call, true when it is left out
Authenticated == IF "authenticated" \in DOMAIN call.kw THEN call.kw.authenticated ELSE TRUE

\* the headers carry the bearer token of the client, or no Authorization entry
Authorizes(headers, authenticated) ==
    IF authenticated
    THEN "Authorization" \in DOMAIN headers /\ headers["Authorization"] = "Bearer " \o self.api_key
    ELSE "Authorization" \notin DOMAIN headers

\* C23: the Authorization header is sent if and only if the request is
\* authenticated: _get_headers includes 'Authorization: Bearer <api_key>'
\* exactly when authenticated is true; get_annotation sends it by default and
\* omits it when called with authenticated=False.
C23_AuthorizationIffAuthenticated ==
    /\ call.op = "_get_headers" => Authorizes(call.result.value, Authenticated)
    /\ call.op = "get_annotation" =>
           /\ Len(call.requests) = 1
           /\ Authorizes(call.requests[1].headers, Authenticated)

\* get_annotation was called with authenticated=False and sent its request
\* without an Authorization header
C23_Witness ==
    /\ call.op = "get_annotation"
    /\ "authenticated" \in DOMAIN call.kw /\ ~call.kw.authenticated
    /\ Len(call.requests) = 1
    /\ DOMAIN call.requests[1].headers = {"Content-Type", "Accept"}

\* the account of the client: its username under the default authority
OwnAccount == "acct:" \o self.username \o "@hypothes.is"

\* the group the annotation ends up in: the payload's group if it has one, else
\* the group argument, else the default
EffectiveGroup ==
    IF "group" \in DOMAIN call.kw.payload THEN call.kw.payload.group
    ELSE IF "group" \in DOMAIN call.kw THEN call.kw.group
    ELSE "__world__"

\* C27: when the payload has no 'permissions' key, create sends read
\* permission for exactly the effective group of the annotation and update,
\* delete and admin permission for exactly the client's own account; a
\* payload that has its own 'permissions' is sent with them unchanged.
C27_DefaultPermissions ==
    (call.op = "create" /\ call.requests # <<>>) =>
        IF "permissions" \in DOMAIN call.kw.payload
        THEN Body.permissions = call.kw.payload.permissions
        ELSE Body.permissions = [read |-> <<"group:" \o EffectiveGroup>>,
                                 update |-> <<OwnAccount>>, delete |-> <<OwnAccount>>,
                                 admin |-> <<OwnAccount>>]

\* create was called with the group argument g2 and a payload of group g1
\* without permissions, and gave read permission to group g1
C27_Witness ==
    /\ call.op = "create"
    /\ call.requests # <<>>
    /\ "permissions" \notin DOMAIN call.kw.payload
    /\ "group" \in DOMAIN call.kw /\ call.kw.group = "g2"
    /\ EffectiveGroup = "g1"
    /\ Body.permissions.read = <<"group:g1">>
    /\ Body.permissions.admin = <<"acct:me@hypothes.is">>

\* the entries create sets
SetByCreate == {"user", "group", "permissions", "document"}

\* C28: create leaves the caller's payload mapping unchanged: the user, group,
\* permissions and document entries are set on a copy that becomes the
\* request body, and the user entry of the request body is always the
\* client's own account, whatever user the payload names.
C28_PayloadUntouched ==
    call.op = "create" =>
        /\ call.payload_after = call.kw.payload
        /\ call.requests # <<>> =>
               /\ DOMAIN Body = DOMAIN call.kw.payload \cup SetByCreate
               /\ \A k \in DOMAIN call.kw.payload \ SetByCreate : Body[k] = call.kw.payload[k]
               /\ Body.user = OwnAccount

\* create was given a payload that names another user and nothing else but the
\* uri: the body names the client, the caller's payload still names the other
C28_Witness ==
    /\ call.op = "create"
    /\ call.requests # <<>>
    /\ DOMAIN call.kw.payload = {"uri", "user"}
    /\ call.kw.payload.user = "acct:other@hypothes.is"
    /\ call.payload_after.user = "acct:other@hypothes.is"
    /\ Body.user = "acct:me@hypothes.is"
    /\ DOMAIN call.payload_after = {"uri", "user"}

\* C29: the deprecated search_id issues one get_annotation request per call
\* and emits exactly one DeprecationWarning: it returns the annotation on
\* success, returns None (raising nothing) when the server answers 404, and
\* lets every other error (401, 403, other statuses) propagate to the caller.
C29_SearchIdDeprecated ==
    call.op = "search_id" =>
        LET status == call.response.status_code IN
        /\ Len(call.requests) = 1
        /\ call.requests[1].method = "GET"
        /\ call.requests[1].url = self.api_url \o "/annotations/" \o call.kw._id
        /\ call.warnings = <<"DeprecationWarning">>
        /\ status \in {200, 201} =>
               call.result.exc = NoError /\ call.result.value = call.response.json
        /\ status = 404 => call.result.exc = NoError /\ call.result.value = None
        /\ (~Success(call.response) /\ status # 404) =>
               /\ call.result.exc = ErrorOf(status)
               /\ call.result.status_code = status

\* search_id was answered 404 and returned None
C29_Witness ==
    /\ call.op = "search_id"
    /\ call.response.status_code = 404
    /\ call.result.exc = NoError
    /\ call.result.value = None
    /\ call.warnings = <<"DeprecationWarning">>

---------------------------------------------------------------------------
(* The user filter and the parameters that stay the same *)

\* the authority of the search: the argument when it is given and not empty,
\* else hypothes.is
Authority == IF Truthy(args.authority) THEN TheValue(args.authority) ELSE "hypothes.is"

\* the account identifier a user value stands for
AccountOf(u) == IF startswith_acct(u) THEN u ELSE "acct:" \o u \o "@" \o Authority

\* C24: the user filter of a search is sent as an account identifier: a user
\* value that already starts with 'acct:' is sent unchanged (authority
\* ignored), and any other non-empty user value u is sent as
\* 'acct:u@<authority>', with the authority defaulting to hypothes.is; the
\* same value is sent in every request of the iteration.
C24_UserAsAccount ==
    Truthy(args.user) =>
        /\ nreq >= 1 => ValuesOf(lastReq, "user") = <<AccountOf(TheValue(args.user))>>
        /\ nreq >= 2 => ValuesOf(prevReq, "user") = <<AccountOf(TheValue(args.user))>>

\* two requests of a search for a full account identifier, given with another
\* authority, both carried the identifier as given
C24_Witness ==
    /\ nreq >= 2
    /\ args.user = Some("acct:u@example.org")
    /\ args.authority = Some("example.com")
    /\ ValuesOf(lastReq, "user") = <<"acct:u@example.org">>
    /\ ValuesOf(prevReq, "user") = <<"acct:u@example.org">>

\* the parameter the chosen pagination mode rewrites
PaginationParameter == IF CursorMode THEN "search_after" ELSE "offset"

\* C26: across the requests of one search iteration only the pagination
\* parameter changes: every filter, the sort, the order and the limit are
\* identical in all requests, and between two consecutive requests exactly one
\* parameter (offset in offset mode, search_after in cursor mode) is rewritten.
C26_OnlyPaginationChanges ==
    nreq >= 2 =>
        /\ DOMAIN lastReq = DOMAIN prevReq
        /\ PaginationParameter \in DOMAIN lastReq
        /\ \A k \in DOMAIN lastReq \ {PaginationParameter} : lastReq[k] = prevReq[k]
        /\ urlencode(lastReq) = [urlencode(prevReq) EXCEPT ![PaginationParameter] =
                                     urlencode(lastReq)[PaginationParameter]]

\* a descending offset-mode search with a user filter sent its second request:
\* the offset moved, user, order and limit are as in the first
C26_Witness ==
    /\ nreq >= 2
    /\ ~CursorMode
    /\ lastReq.offset # prevReq.offset
    /\ lastReq.order = "desc" /\ prevReq.order = "desc"
    /\ Carries(lastReq, "user") /\ ValuesOf(lastReq, "user") = ValuesOf(prevReq, "user")
    /\ lastReq.limit = prevReq.limit

---------------------------------------------------------------------------
(* The search against a fixed list *)

\* s is the start of t
IsPrefix(s, t) == Len(s) <= Len(t) /\ s = SubSeq(t, 1, Len(s))

\* the records of the server's list from the start offset of the search to
\* the end
FromOffset == SubSeq(listing.rows, gens[1].args.offset + 1, Len(listing.rows))

\* C25: in offset mode, against a server that holds a fixed ordered result
\* list and answers each request with the rows at positions
\* [offset, offset + min(limit, cap)), a search started at offset o yields
\* every record from position o to the end of the list exactly once and in
\* list order, for every limit >= 1 and every page cap >= 1, a cap smaller
\* than limit included: what has been yielded is at every moment the start of
\* that stretch of the list, and all of it once the search has finished.
C25_EveryRecordOnce ==
    /\ IsPrefix(gens[1].yields, FromOffset)
    /\ gens[1].pc = "finished" => gens[1].yields = FromOffset

---------------------------------------------------------------------------
(* The batch-tag example *)

\* the tags of an annotation, none when it has no tags entry
TagsOf(ann) == IF "tags" \in DOMAIN ann THEN ann.tags ELSE <<>>

\* the tag lists sent in the updates of the latest call of the example
UpdatesSent ==
    LET patches == SelectSeq(tagging.requests, LAMBDA r : r.method = "PATCH")
    IN  [i \in 1..Len(patches) |-> patches[i].json]

\* the latest call got the annotation and no request of it was refused
Went == tagging.result.exc = NoError

\* the latest call got the annotation, whatever became of its update
GotAnnotation == tagging.result.exc = NoError \/ Len(tagging.requests) = 2

\* seq without every occurrence of x, the others in their order
RECURSIVE Without(_, _)
Without(seq, x) ==
    IF seq = <<>> THEN <<>>
    ELSE (IF Head(seq) = x THEN <<>> ELSE <<Head(seq)>>) \o Without(Tail(seq), x)

Occurs(seq, x) == \E i \in 1..Len(seq) : seq[i] = x

\* what one call of the example does
TagCallAsDescribed ==
    LET was == TagsOf(tagging.before) IN
    /\ (tagging.op = "add_tag" /\ GotAnnotation) =>
           IF Occurs(was, tagging.tag)
           THEN UpdatesSent = <<>> /\ tagging.result.value = was /\ tagging.ann = tagging.before
           ELSE /\ UpdatesSent = <<[tags |-> Append(was, tagging.tag)]>>
                /\ Went => /\ tagging.result.value = Append(was, tagging.tag)
                           /\ TagsOf(tagging.ann) = Append(was, tagging.tag)
    /\ (tagging.op = "remove_tag" /\ GotAnnotation) =>
           IF Occurs(was, tagging.tag)
           THEN /\ UpdatesSent = <<[tags |-> Without(was, tagging.tag)]>>
                /\ Went => /\ tagging.result.value = Without(was, tagging.tag)
                           /\ TagsOf(tagging.ann) = Without(was, tagging.tag)
           ELSE UpdatesSent = <<>> /\ tagging.result.value = was /\ tagging.ann = tagging.before

\* a call of add_tag that follows a call of add_tag with the same tag, both
\* carried out, changes nothing and sends no update
SecondAddTagIdle ==
    (/\ tagging.op = "add_tag" /\ Went
     /\ tagging'.op = "add_tag" /\ tagging'.result.exc = NoError
     /\ tagging'.tag = tagging.tag)
        => /\ tagging'.ann = tagging.ann
           /\ Len(tagging'.requests) = 1
           /\ tagging'.result.value = TagsOf(tagging.ann)

\* C30: in the batch-tag example, add_tag adds a tag without removing
\* existing tags and is idempotent: when the tag is absent it issues one
\* update whose tag list is the current list with the new tag appended; when
\* the tag is already present it issues no update and returns the current
\* list, so applying add_tag twice with the same tag leaves the same tags as
\* applying it once. remove_tag removes every occurrence of the tag, keeps the
\* order of the others, and issues no update when the tag is absent.
C30_TagExample == []TagCallAsDescribed /\ [][SecondAddTagIdle]_vars

\* add_tag found the tag z that an earlier add_tag had appended to x, y, x:
\* no update, the list returned as it was
C30_Witness ==
    /\ tagging.op = "add_tag"
    /\ tagging.tag = "z"
    /\ TagsOf(tagging.before) = <<"x", "y", "x", "z">>
    /\ UpdatesSent = <<>>
    /\ tagging.result.exc = NoError
    /\ tagging.result.value = <<"x", "y", "x", "z">>

====
